---- MODULE Spec2Model ----
(***************************************************************************)
(* Job orchestration core of ai_diffusion/model.py: Job, JobQueue,         *)
(* ControlLayer (active-job tracking) and Model (dispatch, event           *)
(* reconciliation, preview management).                                    *)
(*                                                                         *)
(* Job objects live in a heap `job` indexed by their construction serial   *)
(* number (uid); JobQueue._entries is a sequence of uids.  Sizes are in    *)
(* units of 10 MB.  Every Python method is an operator from a program      *)
(* state record to a program state record; an action applies the whole     *)
(* handler and commits the result.                                         *)
(***************************************************************************)
EXTENDS Integers, Sequences, FiniteSets, Bags, TLC

\* ------------------------------------------------------------------ bounds
\* Job objects constructed plus generate submissions still in flight, in
\* behaviours of the whole program (Spec).
MaxJobs == 2
\* Job objects constructed in behaviours of the bare JobQueue (QueueSpec).
MaxQueued == 3
\* settings.history_size, the history budget (units of 10 MB).
HistorySize == 4
\* Cap on the memory accumulator, which repeated finished events for one job
\* would otherwise grow without limit.
MaxMemory == 6

\* ------------------------------------------------------------- vocabulary
JobKind == {"diffusion", "control_layer", "upscaling", "live_preview"}
State == {"queued", "executing", "finished", "cancelled"}
\* Python's None for Job.id, ControlLayer._generate_job and find's result.
None == 0
NoSelection == [job |-> None, image |-> 0]
\* An unallocated (or no longer referenced) slot of the heap.
NoJob == [kind |-> "none", id |-> None, state |-> "queued", results |-> <<>>]
\* Result sets a finished event can carry: none, one small image, one image
\* that alone exceeds the budget.
Images == {<<>>, <<1>>, <<HistorySize + 1>>}
\* Job ids are opaque unique strings the backend assigns on enqueue; the id
\* given to the Job with serial number u is named u.
JobId(u) == u
JobIds == 1..MaxJobs
Uids == 1..(IF MaxJobs > MaxQueued THEN MaxJobs ELSE MaxQueued)
ColorModeError == "Incompatible color mode"
ServerErrors == {"", "out of memory"}
ProgressValues == {50}
\* ControlMode (workflow.py): image, the default of ControlLayer.mode, which
\* _get_current_image skips; scribble, the first _last_mode of the list;
\* pose, whose result is pose data.
Modes == {"image", "scribble", "pose"}
\* Layers of the document a ControlLayer can refer to: the layer that was
\* active when it was created, the layer that is active when an event
\* arrives, and a layer inserted for the result of a control_layer job.
OriginalLayer == "original layer"
ActiveLayer == "active layer"
ControlResultLayer == "control result layer"
\* ClientMessage.result: None, or the pose data of a pose job.
Results == {"None", "pose"}
\* Model.strength in percent: 1.0 and a value below it.
Strengths == {50, 100}

VARIABLES
    job,              \* heap of Job objects: uid -> [kind, id, state, results]
    entries,          \* JobQueue._entries (sequence of uids, oldest first)
    memory_usage,     \* JobQueue._memory_usage
    selection,        \* JobQueue._selection
    progress,         \* Model.progress, in percent
    error,            \* Model.error
    layer,            \* Model._layer: "None", "Preview" (shown), "Hidden",
                      \* or "Deleted" (tracked, no longer in the document)
    can_apply_result, \* Model.can_apply_result
    control,          \* the ControlLayer: [status, generate_job,
                      \*                    has_active_job, mode, layer_id]
    last_mode,        \* ControlLayerList._last_mode
    strength,         \* Model.strength, in percent
    task,             \* Model.task: handle of the coroutine dispatched last
    tasks,            \* bag of dispatched coroutines not yet completed
    next_uid,         \* serial number of the next Job object
    crashed           \* the process was aborted by an exception in a slot

vars == <<job, entries, memory_usage, selection, progress, error, layer,
          can_apply_result, control, last_mode, strength, task, tasks,
          next_uid, crashed>>

\* ---------------------------------------------------------------- helpers
RECURSIVE SumSeq(_)
SumSeq(s) == IF s = <<>> THEN 0 ELSE Head(s) + SumSeq(Tail(s))

\* ImageCollection.size / (1024**2)
Size(results) == SumSeq(results)

Range(s) == {s[i] : i \in 1..Len(s)}

MinOf(S) == CHOOSE x \in S : \A y \in S : x <= y

\* A dispatched coroutine: the operation, the Job it was handed (None for
\* generate, which constructs its Job after the await), its position, and
\* for generate whether a reference image and a mask were captured (both are
\* dead once the request is built).
Task(op, u, pc, image, mask) ==
    [op |-> op, job |-> u, pc |-> pc, image |-> image, mask |-> mask]

\* No coroutine.
NoTask == Task("none", None, "none", FALSE, FALSE)

\* The handle of a coroutine: what identifies it while it runs and after.
Handle(t) == [op |-> t.op, job |-> t.job]

\* The program state as one record; exc is the exception propagating out of
\* the current call ("" = none), slot_exc whether a slot invoked by a signal
\* raised, evicted the uids popped by prune during the current handler,
\* inserted the layers the current handler added to the document,
\* dispatched the coroutine the current call handed to eventloop.run.
Cur ==
    [job |-> job, entries |-> entries, memory_usage |-> memory_usage,
     selection |-> selection, progress |-> progress, error |-> error,
     layer |-> layer, can_apply_result |-> can_apply_result,
     control |-> control, last_mode |-> last_mode, strength |-> strength,
     task |-> task,
     next_uid |-> next_uid,
     exc |-> "", slot_exc |-> FALSE, evicted |-> <<>>, inserted |-> <<>>,
     dispatched |-> NoTask]

\* -------------------------------------------------------------- JobQueue
\* JobQueue._add, with the Job constructed by add / add_control /
\* add_upscale / add_live.
Add(s, kind, id) ==
    LET u == s.next_uid IN
    [s EXCEPT !.job[u] = [kind |-> kind, id |-> id, state |-> "queued",
                          results |-> <<>>],
              !.entries = Append(@, u),
              !.next_uid = u + 1]

\* JobQueue.remove: deque.remove raises ValueError when the job is absent.
Remove(s, u) ==
    IF u \notin Range(s.entries)
    THEN [s EXCEPT !.exc = "ValueError"]
    ELSE LET keep(x) == x # u IN [s EXCEPT !.entries = SelectSeq(@, keep)]

\* Variant of find that falls back to the oldest entry instead of None.
FindOrOldest(s, id) ==
    LET hits == {i \in 1..Len(s.entries) : s.job[s.entries[i]].id = id} IN
    IF hits # {} THEN s.entries[MinOf(hits)]
    ELSE IF s.entries = <<>> THEN None ELSE Head(s.entries)

\* JobQueue.find: the uid of the first entry with that id, or None.
Find(s, id) ==
    LET hits == {i \in 1..Len(s.entries) : s.job[s.entries[i]].id = id} IN
    IF hits = {} THEN None ELSE s.entries[MinOf(hits)]

\* JobQueue.count
Count(s, state) ==
    Cardinality({i \in 1..Len(s.entries) : s.job[s.entries[i]].state = state})

\* JobQueue.any_executing
AnyExecuting(s) ==
    \E i \in 1..Len(s.entries) : s.job[s.entries[i]].state = "executing"

\* Variant of prune that evicts the newest entry first (pop instead of
\* popleft).
RECURSIVE PruneNewest(_, _)
PruneNewest(s, keep) ==
    IF s.memory_usage > HistorySize /\ s.entries # <<>>
       /\ s.entries[Len(s.entries)] # keep
    THEN LET discarded == s.entries[Len(s.entries)] IN
         PruneNewest([s EXCEPT
                        !.entries = SubSeq(@, 1, Len(@) - 1),
                        !.memory_usage = @ - Size(s.job[discarded].results),
                        !.evicted = Append(@, discarded)],
                     keep)
    ELSE s

\* Variant of prune that does not protect keep.
RECURSIVE PruneUnprotected(_, _)
PruneUnprotected(s, keep) ==
    IF s.memory_usage > HistorySize /\ s.entries # <<>>
    THEN LET discarded == Head(s.entries) IN
         PruneUnprotected([s EXCEPT
                             !.entries = Tail(@),
                             !.memory_usage = @ - Size(s.job[discarded].results),
                             !.evicted = Append(@, discarded)],
                          keep)
    ELSE s

\* JobQueue.prune: evict the oldest entry while over budget and the oldest
\* entry is not keep.  _entries[0] on an empty deque raises IndexError.
RECURSIVE Prune(_, _)
Prune(s, keep) ==
    IF s.memory_usage > HistorySize
    THEN IF s.entries = <<>>
         THEN [s EXCEPT !.exc = "IndexError"]
         ELSE IF Head(s.entries) # keep
              THEN LET discarded == Head(s.entries) IN
                   Prune([s EXCEPT
                            !.entries = Tail(@),
                            !.memory_usage = @ - Size(s.job[discarded].results),
                            !.evicted = Append(@, discarded)],
                         keep)
              ELSE s
    ELSE s

\* Variant of set_results that accounts for the results but never prunes.
SetResultsNoPrune(s, u, results) ==
    LET s1 == [s EXCEPT !.job[u].results = results] IN
    IF s.job[u].kind = "diffusion"
    THEN [s1 EXCEPT !.memory_usage = @ + Size(results)]
    ELSE s1

\* JobQueue.set_results
SetResults(s, u, results) ==
    LET s1 == [s EXCEPT !.job[u].results = results] IN
    IF s.job[u].kind = "diffusion"
    THEN Prune([s1 EXCEPT !.memory_usage = @ + Size(results)], u)
    ELSE s1

\* JobQueue.notify_started
NotifyStarted(s, u) == [s EXCEPT !.job[u].state = "executing"]

\* ----------------------------------------------------------------- Model
\* Model.show_preview: a tracked layer that is no longer in the document is
\* forgotten before job.results[index] is read, so the IndexError of an index
\* outside the results leaves the model without a layer.
ShowPreview(s, job_id, index) ==
    LET u == Find(s, job_id)
        s1 == IF s.layer = "Deleted" THEN [s EXCEPT !.layer = "None"] ELSE s IN
    IF u = None THEN [s EXCEPT !.exc = "AssertionError"]
    ELSE IF index >= Len(s.job[u].results) THEN [s1 EXCEPT !.exc = "IndexError"]
    ELSE IF s1.layer = "None"
    THEN [s1 EXCEPT !.layer = "Preview", !.inserted = Append(@, "preview")]
    ELSE [s1 EXCEPT !.layer = "Preview"]

\* Model.hide_preview: the tracked layer stays tracked and is made invisible
\* (a layer that is no longer in the document has nothing to hide).
HidePreview(s) ==
    IF s.layer \in {"Preview", "Hidden"} THEN [s EXCEPT !.layer = "Hidden"]
    ELSE s

\* Model.update_preview
UpdatePreview(s) ==
    IF s.selection # NoSelection
    THEN LET s1 == ShowPreview(s, s.selection.job, s.selection.image) IN
         IF s1.exc # "" THEN s1 ELSE [s1 EXCEPT !.can_apply_result = TRUE]
    ELSE [HidePreview(s) EXCEPT !.can_apply_result = FALSE]

\* ControlLayer._update_active_job, the slot of the ControlLayer that exists
UpdateActiveJob(s) ==
    LET g == s.control.generate_job
        active == g # None /\ s.job[g].state # "finished" IN
    IF s.control.status = "absent" THEN s
    ELSE [s EXCEPT !.control.has_active_job = active]

\* A slot called by a signal: an exception it raises does not reach the
\* emitter; it is recorded in slot_exc and the emitter goes on.
Slot(s, after) ==
    IF after.exc # "" THEN [after EXCEPT !.exc = "", !.slot_exc = TRUE]
    ELSE after

\* job_finished.emit: Model.update_preview was connected first, then the
\* ControlLayer's _update_active_job.
EmitJobFinished(s) ==
    LET s1 == Slot(s, UpdatePreview(s)) IN Slot(s1, UpdateActiveJob(s1))

\* JobQueue.notify_finished
NotifyFinished(s, u) == EmitJobFinished([s EXCEPT !.job[u].state = "finished"])

\* JobQueue.selection setter (selection_changed is connected to
\* Model.update_preview) and JobQueue.select
SetSelection(s, value) ==
    LET s1 == [s EXCEPT !.selection = value] IN Slot(s1, UpdatePreview(s1))

Select(s, job_id, index) == SetSelection(s, [job |-> job_id, image |-> index])

\* Model.report_progress
ReportProgress(s, value) == [s EXCEPT !.progress = value]

\* Variant of report_error that keeps an error already shown.
ReportErrorOnce(s, message) ==
    IF s.error = "" THEN [s EXCEPT !.error = message] ELSE s

\* Model.report_error
ReportError(s, message) == [s EXCEPT !.error = message]

\* Model.clear_error
ClearError(s) == IF s.error # "" THEN [s EXCEPT !.error = ""] ELSE s

\* Model.add_control_layer and the assignment of the returned layer's id to
\* the owning ControlLayer's layer_id.
AddControlLayer(s, u, result) ==
    IF s.control.mode = "pose" /\ result # "None"
    THEN [s EXCEPT !.inserted = Append(@, "control vector"),
                   !.control.layer_id = ControlResultLayer]
    ELSE IF Len(s.job[u].results) > 0
    THEN [s EXCEPT !.inserted = Append(@, "control"),
                   !.control.layer_id = ControlResultLayer]
    ELSE [s EXCEPT !.control.layer_id = ActiveLayer]

\* Model.add_upscale_layer
AddUpscaleLayer(s, u) ==
    IF Len(s.job[u].results) = 0 THEN [s EXCEPT !.exc = "AssertionError"]
    ELSE [s EXCEPT !.layer = "None", !.inserted = Append(@, "upscale")]

\* Model.handle_message, ClientEvent.finished branch
HandleFinished(s, u, m) ==
    LET kind == s.job[u].kind
        s1 == IF m.images # <<>> THEN SetResults(s, u, m.images) ELSE s
        s2 == IF kind = "control_layer" THEN AddControlLayer(s1, u, m.result)
              ELSE IF kind = "upscaling" THEN AddUpscaleLayer(s1, u)
              ELSE s1
    IN
    IF s2.exc # "" THEN s2
    ELSE LET s3 == NotifyFinished([s2 EXCEPT !.progress = 100], u) IN
         IF kind # "diffusion" THEN Remove(s3, u)
         ELSE IF s3.layer = "None" /\ s3.job[u].id # None
              THEN Select(s3, s3.job[u].id, 0)
              ELSE s3

\* Variant of the interrupted branch that reports the interruption as an
\* error and leaves the progress value alone.
HandleInterruptedAsError(s, u) ==
    [s EXCEPT !.job[u].state = "cancelled", !.error = "Interrupted"]

\* Variant of the interrupted branch that also clears the error message.
HandleInterruptedClearingError(s, u) ==
    ClearError(ReportProgress([s EXCEPT !.job[u].state = "cancelled"], 0))

\* Model.handle_message, ClientEvent.interrupted branch
HandleInterrupted(s, u) ==
    ReportProgress([s EXCEPT !.job[u].state = "cancelled"], 0)

\* Model.handle_message, ClientEvent.error branch
HandleError(s, u, m) ==
    ReportError([s EXCEPT !.job[u].state = "cancelled"],
                "Server execution error: " \o m.error)

\* Model.handle_message
HandleMessage(s, m) ==
    LET u == Find(s, m.job_id) IN
    IF u = None THEN s
    ELSE CASE m.event = "progress" ->
                ReportProgress(NotifyStarted(s, u), m.progress)
           [] m.event = "finished" -> HandleFinished(s, u, m)
           [] m.event = "interrupted" -> HandleInterrupted(s, u)
           [] m.event = "error" -> HandleError(s, u, m)

\* Model.cancel: with queued, every queued job is removed; with active the
\* backend is asked to interrupt, which changes nothing here.
RECURSIVE RemoveAll(_, _)
RemoveAll(s, to_remove) ==
    IF to_remove = <<>> THEN s
    ELSE RemoveAll(Remove(s, Head(to_remove)), Tail(to_remove))

Cancel(s, active, queued) ==
    IF queued
    THEN LET isQueued(u) == s.job[u].state = "queued" IN
         RemoveAll(s, SelectSeq(s.entries, isQueued))
    ELSE s

\* Model.apply_current_result
ApplyCurrentResult(s) ==
    IF s.layer # "None" /\ s.can_apply_result
    THEN [s EXCEPT !.layer = "None"]
    ELSE [s EXCEPT !.exc = "AssertionError"]

\* ----------------------------------------------------- dispatch and tasks
\* Number of generate coroutines among the dispatched ones.
RECURSIVE CopiesOf(_, _)
CopiesOf(S, tk) ==
    IF S = {} THEN 0
    ELSE LET t == CHOOSE x \in S : TRUE IN
         CopiesIn(t, tk) + CopiesOf(S \ {t}, tk)

GenerateTasks(tk) == CopiesOf({t \in BagToSet(tk) : t.op = "generate"}, tk)

\* Model.generate: a reference image is taken when there is a mask or the
\* strength is below 1.
CapturesImage(s, mask) == mask \/ s.strength < 100

\* self.task = eventloop.run(_report_errors(self, coroutine))
Run(s, t) == [s EXCEPT !.dispatched = t, !.task = Handle(t)]

\* Model._get_current_image: the list of layers to exclude reads the
\* attribute `image` of every ControlLayer in the list whose mode is not
\* image or blur; ControlLayer has no such attribute.
GetCurrentImage(s) ==
    IF s.control.status = "listed" /\ s.control.mode \notin {"image", "blur"}
    THEN [s EXCEPT !.exc = "AttributeError"]
    ELSE s

\* Model.generate; ok is check_color_mode's answer (its message is never
\* empty when it fails), mask whether the selection gives a mask.
Generate(s, ok, mask) ==
    IF ~ok THEN ReportError(s, ColorModeError)
    ELSE LET image == CapturesImage(s, mask)
             s1 == IF image THEN GetCurrentImage(s) ELSE s IN
         IF s1.exc # "" THEN s1
         ELSE Run(ClearError(s1), Task("generate", None, "start", image, mask))

\* Model.upscale_image
UpscaleImage(s) ==
    Run(ClearError(Add(s, "upscaling", None)),
        Task("upscale_image", s.next_uid, "await", FALSE, FALSE))

\* Model.generate_live; image is whether live.strength is below 1 (live is a
\* LiveParams, read once by the call), so that a reference image is taken.
GenerateLive(s, image) ==
    LET s1 == IF image THEN GetCurrentImage(s) ELSE s IN
    IF s1.exc # "" THEN s1
    ELSE Run(ClearError(Add(s1, "live_preview", None)),
             Task("generate_live", s.next_uid, "await", image, FALSE))

\* Model.generate_control_layer
GenerateControlLayer(s, ok) ==
    IF ~ok THEN ReportError(s, ColorModeError)
    ELSE Run(ClearError(Add(s, "control_layer", None)),
             Task("generate_control_layer", s.next_uid, "await", FALSE, FALSE))

\* ControlLayer.generate: generate_control_layer returns the new Job, or
\* None when the color-mode check failed.
ControlGenerate(s, ok) ==
    LET s1 == GenerateControlLayer(s, ok)
        g == IF ok THEN s.next_uid ELSE None IN
    [s1 EXCEPT !.control.generate_job = g, !.control.has_active_job = TRUE]

\* No ControlLayer object: the fields hold the class defaults.
NoControl ==
    [status |-> "absent", generate_job |-> None, has_active_job |-> FALSE,
     mode |-> "image", layer_id |-> "none"]

\* ControlLayerList.add: a ControlLayer in the mode used last, on the layer
\* that is active in the document.
ControlAdd(s) ==
    [s EXCEPT !.control = [status |-> "listed", generate_job |-> None,
                           has_active_job |-> FALSE, mode |-> s.last_mode,
                           layer_id |-> OriginalLayer]]

\* ControlLayerList.remove: the object leaves the list; a job created for it
\* still refers to it.
ControlRemove(s) == [s EXCEPT !.control.status = "removed"]

\* The setter of ControlLayer.mode; mode_changed is connected to
\* ControlLayerList._update_last_mode.
SetControlMode(s, mode) ==
    [s EXCEPT !.control.mode = mode, !.last_mode = mode]

\* The setter of ControlLayer.layer_id
SetControlLayer(s, id) == [s EXCEPT !.control.layer_id = id]

\* Model._generate: the workflow the request is built with, from the image
\* and mask captured by generate and the strength read when the coroutine
\* starts; a failed assertion ends the coroutine.
RequestType(image, mask, str) ==
    IF ~image /\ ~mask
    THEN IF str = 100 THEN "generate" ELSE "AssertionError"
    ELSE IF ~mask /\ str < 100
    THEN IF image THEN "refine" ELSE "AssertionError"
    ELSE IF str = 100
    THEN IF image /\ mask THEN "inpaint" ELSE "AssertionError"
    ELSE IF image /\ mask /\ str < 100 THEN "refine_region"
         ELSE "AssertionError"

\* Model._generate up to the await on client.enqueue
GenerateStart(s, image, mask) ==
    LET s1 == IF ~AnyExecuting(s) THEN [s EXCEPT !.progress = 0] ELSE s IN
    IF RequestType(image, mask, s.strength) = "AssertionError"
    THEN [s1 EXCEPT !.exc = "AssertionError"]
    ELSE s1

\* Model._generate after the await: jobs.add(job_id, ...)
GenerateEnqueued(s, job_id) == Add(s, "diffusion", job_id)

\* Model._upscale_image / _generate_live / _generate_control_layer after
\* the await: job.id = <the id the backend assigned>
JobEnqueued(s, u, job_id) == [s EXCEPT !.job[u].id = job_id]

\* Variant of _report_errors that swallows the exception without reporting.
ReportErrorsSilently(s, e) == [s EXCEPT !.exc = ""]

\* _report_errors: the exception of the coroutine becomes the error text.
ReportErrors(s, e) ==
    ReportError([s EXCEPT !.exc = ""],
                IF e = "NetworkError"
                THEN "NetworkError [url, code]" ELSE "Exception")

\* The exceptions building a request or submitting it can raise.
SubmitErrors == {"NetworkError", "Exception"}

\* The coroutine t runs up to where building or submitting its request
\* raises e: a generate coroutine that had not started runs the first
\* statements of _generate before.
TaskFail(s, t, e) ==
    LET s1 == IF t.pc = "start" THEN GenerateStart(s, t.image, t.mask)
              ELSE s IN
    ReportErrors(s1, IF s1.exc # "" THEN s1.exc ELSE e)

\* ------------------------------------------------------------ transitions
\* The Job objects the queue or a coroutine refers to.
Rooted(s, tk) == Range(s.entries) \cup {t.job : t \in BagToSet(tk)}

\* The ControlLayer is in the list or a control_layer job refers to it.
ControlAlive(s, tk) ==
    \/ s.control.status = "listed"
    \/ \E u \in Rooted(s, tk) \ {None} : s.job[u].kind = "control_layer"

\* Job objects no longer referenced by the queue, the ControlLayer or a
\* coroutine are unobservable; their heap slot is reset.
Collect(s, tk) ==
    LET live == Rooted(s, tk)
                \cup (IF ControlAlive(s, tk) THEN {s.control.generate_job}
                      ELSE {}) IN
    [u \in DOMAIN s.job |-> IF u \in live THEN s.job[u] ELSE NoJob]

\* A ControlLayer that left the list and that no job refers to is
\* unobservable as well.
CollectControl(s, tk) == IF ControlAlive(s, tk) THEN s.control ELSE NoControl

CommitState(s, tk) ==
    /\ s.memory_usage <= MaxMemory
    /\ job' = Collect(s, tk)
    /\ entries' = s.entries
    /\ memory_usage' = s.memory_usage
    /\ selection' = s.selection
    /\ progress' = s.progress
    /\ error' = s.error
    /\ layer' = s.layer
    /\ can_apply_result' = s.can_apply_result
    /\ control' = CollectControl(s, tk)
    /\ last_mode' = s.last_mode
    /\ strength' = s.strength
    /\ task' = s.task
    /\ next_uid' = s.next_uid
    /\ tasks' = tk
    /\ crashed' = FALSE

\* An exception in a slot either aborts the process (PyQt's default) or is
\* handed to the installed exception hook, after which the emitter goes on.
Abort ==
    /\ crashed' = TRUE
    /\ UNCHANGED <<job, entries, memory_usage, selection, progress, error,
                   layer, can_apply_result, control, last_mode, strength,
                   task, tasks, next_uid>>

Commit(s, tk) ==
    \/ CommitState(s, tk)
    \/ s.slot_exc /\ Abort

CanDispatch == (next_uid - 1) + GenerateTasks(tasks) < MaxJobs

Init ==
    /\ job = [u \in Uids |-> NoJob]
    /\ entries = <<>>
    /\ memory_usage = 0
    /\ selection = NoSelection
    /\ progress = 0
    /\ error = ""
    /\ layer = "None"
    /\ can_apply_result = FALSE
    /\ control = NoControl
    /\ last_mode = "scribble"
    /\ strength = 100
    /\ task = Handle(NoTask)
    /\ tasks = EmptyBag
    /\ next_uid = 1
    /\ crashed = FALSE

\* Variant of the dispatch in which the new coroutine replaces the ones
\* still running.
DispatchedCancellingOthers(s, tk) ==
    IF s.dispatched = NoTask THEN tk ELSE SetToBag({s.dispatched})

\* The coroutines after a call: those before it and the one it dispatched.
Dispatched(s, tk) ==
    IF s.dispatched = NoTask THEN tk ELSE tk (+) SetToBag({s.dispatched})

DoGenerate ==
    /\ ~crashed /\ CanDispatch
    /\ \E ok, mask \in BOOLEAN :
         LET s == Generate(Cur, ok, mask) IN Commit(s, Dispatched(s, tasks))

DoUpscaleImage ==
    /\ ~crashed /\ CanDispatch
    /\ LET s == UpscaleImage(Cur) IN Commit(s, Dispatched(s, tasks))

DoGenerateLive ==
    /\ ~crashed /\ CanDispatch
    /\ \E image \in BOOLEAN :
         LET s == GenerateLive(Cur, image) IN Commit(s, Dispatched(s, tasks))

\* The generate button of a ControlLayer in the list.
DoControlGenerate ==
    /\ ~crashed /\ CanDispatch
    /\ control.status = "listed"
    /\ \E ok \in BOOLEAN :
         LET s == ControlGenerate(Cur, ok) IN Commit(s, Dispatched(s, tasks))

\* The first segment of Model._generate runs: up to the await, or to a
\* failed assertion, which _report_errors catches.
TaskStart ==
    /\ ~crashed
    /\ \E t \in BagToSet(tasks) :
         /\ t.pc = "start"
         /\ LET s == GenerateStart(Cur, t.image, t.mask) IN
            IF s.exc # ""
            THEN Commit(ReportErrors(s, s.exc), tasks (-) SetToBag({t}))
            ELSE Commit(s, (tasks (-) SetToBag({t}))
                           (+) SetToBag({Task("generate", None, "await",
                                              FALSE, FALSE)}))

\* client.enqueue returns the id the backend assigned.
TaskEnqueued ==
    /\ ~crashed
    /\ \E t \in BagToSet(tasks) :
         /\ t.pc = "await"
         /\ Commit(IF t.op = "generate"
                   THEN GenerateEnqueued(Cur, JobId(next_uid))
                   ELSE JobEnqueued(Cur, t.job, JobId(t.job)),
                   tasks (-) SetToBag({t}))

\* Payload construction or client.enqueue raises inside the coroutine (a
\* coroutine whose assertion fails ends in TaskStart).
TaskFailed ==
    /\ ~crashed
    /\ \E t \in BagToSet(tasks), e \in SubmitErrors :
         /\ t.pc = "start" => GenerateStart(Cur, t.image, t.mask).exc = ""
         /\ Commit(TaskFail(Cur, t, e), tasks (-) SetToBag({t}))

Message(job_id, event, prog, images, result, err) ==
    [job_id |-> job_id, event |-> event, progress |-> prog,
     images |-> images, result |-> result, error |-> err]

\* ClientMessage: the messages the backend can send.  Pose data comes
\* without images.
Messages ==
    {Message(i, "progress", p, <<>>, "None", "") :
        i \in JobIds, p \in ProgressValues}
    \cup {Message(i, "finished", 0, r, "None", "") : i \in JobIds, r \in Images}
    \cup {Message(i, "finished", 0, <<>>, x, "") :
             i \in JobIds, x \in Results \ {"None"}}
    \cup {Message(i, "interrupted", 0, <<>>, "None", "") : i \in JobIds}
    \cup {Message(i, "error", 0, <<>>, "None", e) :
             i \in JobIds, e \in ServerErrors}

DoHandleMessage ==
    /\ ~crashed
    /\ \E m \in Messages : Commit(HandleMessage(Cur, m), tasks)

DoCancel ==
    /\ ~crashed
    /\ \E active, queued \in BOOLEAN :
         /\ active \/ queued
         /\ Commit(Cancel(Cur, active, queued), tasks)

\* The strength property is set (by the strength slider).
DoSetStrength ==
    /\ ~crashed
    /\ \E value \in Strengths \ {strength} :
         Commit([Cur EXCEPT !.strength = value], tasks)

\* The apply affordance is offered while can_apply_result is set.
DoApplyCurrentResult ==
    /\ ~crashed /\ can_apply_result
    /\ Commit(ApplyCurrentResult(Cur), tasks)

\* The history widget selects a result of a job.
DoSelect ==
    /\ ~crashed
    /\ \E job_id \in JobIds, index \in {0, 1} :
         Commit(Select(Cur, job_id, index), tasks)

\* The selection is set to None.
DoClearSelection ==
    /\ ~crashed /\ selection # NoSelection
    /\ Commit(SetSelection(Cur, NoSelection), tasks)

\* The user deletes the preview layer from the document: Model._layer still
\* refers to it and its parentNode() is None.
DoDeletePreviewLayer ==
    /\ ~crashed /\ layer \in {"Preview", "Hidden"}
    /\ Commit([Cur EXCEPT !.layer = "Deleted"], tasks)

\* One ControlLayer object is tracked: the list gets one when none exists.
DoControlAdd ==
    /\ ~crashed /\ control.status = "absent"
    /\ Commit(ControlAdd(Cur), tasks)

DoControlRemove ==
    /\ ~crashed /\ control.status = "listed"
    /\ Commit(ControlRemove(Cur), tasks)

DoSetControlMode ==
    /\ ~crashed /\ control.status = "listed"
    /\ \E mode \in Modes \ {control.mode} :
         Commit(SetControlMode(Cur, mode), tasks)

\* The layer of a ControlLayer is chosen among the document's own layers.
DoSetControlLayer ==
    /\ ~crashed /\ control.status = "listed"
    /\ \E id \in {OriginalLayer, ActiveLayer} \ {control.layer_id} :
         Commit(SetControlLayer(Cur, id), tasks)

Next ==
    \/ DoGenerate
    \/ DoUpscaleImage
    \/ DoGenerateLive
    \/ DoControlGenerate
    \/ TaskStart
    \/ TaskEnqueued
    \/ TaskFailed
    \/ DoHandleMessage
    \/ DoCancel
    \/ DoApplyCurrentResult
    \/ DoSelect
    \/ DoSetStrength
    \/ DoClearSelection
    \/ DoDeletePreviewLayer
    \/ DoControlAdd
    \/ DoControlRemove
    \/ DoSetControlMode
    \/ DoSetControlLayer

\* The whole program (15,310,812 reachable states at MaxJobs = 2, explored
\* in 77 minutes).  The specifications that follow restrict the calls
\* the environment makes (each is a sub-disjunction of Next over the same
\* Init); properties are stated over the restriction that contains the calls
\* they speak about.
Spec == Init /\ [][Next]_vars

\* --------------------------------------------- the program without preview
\* The program without the calls that act on the result preview (select,
\* selection = None, apply_current_result, deletion of the preview layer):
\* a selection is made by finished events only.
JobsNext ==
    \/ DoGenerate
    \/ DoUpscaleImage
    \/ DoGenerateLive
    \/ DoControlGenerate
    \/ TaskStart
    \/ TaskEnqueued
    \/ TaskFailed
    \/ DoHandleMessage
    \/ DoCancel
    \/ DoSetStrength
    \/ DoControlAdd
    \/ DoControlRemove
    \/ DoSetControlMode

JobsSpec == Init /\ [][JobsNext]_vars

\* ------------------------------------------------------ the result preview
\* Image generation and upscaling at full strength with every call that
\* acts on the result preview; no ControlLayer and no live preview.
PreviewNext ==
    \/ DoGenerate
    \/ DoUpscaleImage
    \/ TaskStart
    \/ TaskEnqueued
    \/ TaskFailed
    \/ DoHandleMessage
    \/ DoCancel
    \/ DoSelect
    \/ DoClearSelection
    \/ DoApplyCurrentResult
    \/ DoDeletePreviewLayer

PreviewSpec == Init /\ [][PreviewNext]_vars

\* ------------------------------------------ applying the previewed result
\* Dispatch operations, their coroutines, server events, cancel calls and
\* apply_current_result: the preview is the one a finished event selected.
ApplyNext ==
    \/ DoGenerate
    \/ DoUpscaleImage
    \/ DoGenerateLive
    \/ DoControlAdd
    \/ DoControlGenerate
    \/ TaskStart
    \/ TaskEnqueued
    \/ TaskFailed
    \/ DoHandleMessage
    \/ DoCancel
    \/ DoApplyCurrentResult

ApplySpec == Init /\ [][ApplyNext]_vars

\* ------------------------------------ dispatches, server events and cancel
\* The program driven by dispatch operations (with the creation of the
\* ControlLayer), their coroutines, server events and cancel calls only.
EventNext ==
    \/ DoGenerate
    \/ DoUpscaleImage
    \/ DoGenerateLive
    \/ DoControlAdd
    \/ DoControlGenerate
    \/ TaskStart
    \/ TaskEnqueued
    \/ TaskFailed
    \/ DoHandleMessage
    \/ DoCancel

EventSpec == Init /\ [][EventNext]_vars

\* ------------------------------------------------- the JobQueue on its own
\* JobQueue.add (a diffusion Job, which carries its id) and add_control /
\* add_upscale / add_live (whose Job has no id yet)
QueueAdd ==
    /\ next_uid <= MaxQueued
    /\ \E kind \in JobKind :
         CommitState(Add(Cur, kind, IF kind = "diffusion"
                                    THEN JobId(next_uid) ELSE None), tasks)

QueueRemove == \E u \in Range(entries) : CommitState(Remove(Cur, u), tasks)

QueueSetResults ==
    \E u \in Range(entries), results \in Images :
        CommitState(SetResults(Cur, u, results), tasks)

QueuePrune == \E keep \in Range(entries) : CommitState(Prune(Cur, keep), tasks)

QueueNext ==
    \/ QueueAdd
    \/ QueueRemove
    \/ QueueSetResults
    \/ QueuePrune

QueueSpec == Init /\ [][QueueNext]_vars

\* ------------------------------------------------------------ properties
\* Sum of the result sizes of the diffusion jobs in the queue of s.
DiffusionTotal(s) ==
    SumSeq([i \in 1..Len(s.entries) |->
              IF s.job[s.entries[i]].kind = "diffusion"
              THEN Size(s.job[s.entries[i]].results) ELSE 0])

\* Sum of the result sizes of the jobs in the sequence of uids q.
TotalSize(s, q) == SumSeq([i \in 1..Len(q) |-> Size(s.job[q[i]].results)])

\* Some job in the queue carries the id.
Known(id) == \E u \in Range(entries) : job[u].id = id

\* The job in the queue that carries the id.
JobOf(id) == CHOOSE u \in Range(entries) : job[u].id = id

\* The accumulator is exact and only diffusion jobs hold results.
Consistent(s) ==
    /\ s.memory_usage = DiffusionTotal(s)
    /\ \A u \in Range(s.entries) :
         s.job[u].kind # "diffusion" => s.job[u].results = <<>>

\* The prune calls that can be made in the current state, directly or from
\* set_results on a diffusion job: <<protected job, state after the call>>.
PruneCalls ==
    {<<keep, Prune(Cur, keep)>> : keep \in Range(entries)}
    \cup {<<u, SetResults(Cur, u, r)>> :
            u \in {v \in Range(entries) : job[v].kind = "diffusion"},
            r \in Images}

\* C1: the memory accumulator equals the sum of the result sizes of the
\* diffusion jobs currently in the queue.
MemoryAccounting == memory_usage = DiffusionTotal(Cur)

\* C2 as stated: prune(keep) never removes keep, and when it returns the
\* accumulator is within the budget or keep is the only job left.
PruneLeavesOnlyKeep ==
    \A c \in PruneCalls :
        /\ c[1] \in Range(c[2].entries)
        /\ c[2].memory_usage <= HistorySize \/ c[2].entries = <<c[1]>>

\* C2 amended: prune(keep) never removes keep, and when it returns the
\* accumulator is within the budget or keep is the oldest job left (jobs
\* added after keep stay in the queue).
PruneStopsAtKeep ==
    \A c \in PruneCalls :
        /\ c[2].exc = ""
        /\ c[1] \in Range(c[2].entries)
        /\ c[2].memory_usage <= HistorySize \/ Head(c[2].entries) = c[1]

\* C2 witness: a prune call evicts a job and stops at keep while still over
\* budget, with a younger job left behind keep.
PruneStopsAtKeepWitness ==
    \E c \in PruneCalls :
        /\ c[2].evicted # <<>>
        /\ c[2].memory_usage > HistorySize
        /\ Head(c[2].entries) = c[1]
        /\ Len(c[2].entries) > 1

\* C3: a job evicted by pruning while a server event is handled is a
\* finished diffusion job.
PruneEvictsOnlyFinishedDiffusion ==
    \A m \in Messages :
        LET s == HandleMessage(Cur, m) IN
        \A i \in 1..Len(s.evicted) :
            /\ job[s.evicted[i]].kind = "diffusion"
            /\ job[s.evicted[i]].state = "finished"

\* C4: set_results on a diffusion job stores the results, adds their size to
\* the accumulator and prunes with the job protected.  From a state whose
\* accumulator is exact, a first result set larger than the budget leaves the
\* job in the queue and the accumulator over budget; every older job whose
\* results alone exceed the budget is evicted when usage is over budget, and
\* the accumulator is exact again afterwards.  On any other kind of job
\* set_results only stores the results.  The scenario of the specification
\* (J1 over budget, then J2 small, from an empty queue) ends with J2 alone.
SetResultsContract ==
    /\ \A u \in Range(entries), r \in Images :
         LET s == SetResults(Cur, u, r)
             before == {entries[i] : i \in {k \in 1..Len(entries) :
                                              \E n \in k + 1..Len(entries) :
                                                  entries[n] = u}}
         IN
         IF job[u].kind = "diffusion"
         THEN /\ s.exc = ""
              /\ s.job[u].results = r
              /\ u \in Range(s.entries)
              /\ s.memory_usage
                   = memory_usage + Size(r) - TotalSize(Cur, s.evicted)
              /\ (Consistent(Cur) /\ job[u].results = <<>>) =>
                   /\ Size(r) > HistorySize => s.memory_usage > HistorySize
                   /\ memory_usage + Size(r) > HistorySize =>
                        \A v \in before :
                            Size(job[v].results) > HistorySize
                                => v \notin Range(s.entries)
                   /\ Consistent(s)
         ELSE s = [Cur EXCEPT !.job[u].results = r]
    /\ (entries = <<>> /\ memory_usage = 0 /\ next_uid < MaxQueued) =>
         LET j1 == next_uid
             j2 == next_uid + 1
             a == SetResults(Add(Cur, "diffusion", JobId(j1)), j1,
                             <<HistorySize + 1>>)
             b == SetResults(Add(a, "diffusion", JobId(j2)), j2, <<1>>)
         IN /\ a.entries = <<j1>> /\ a.memory_usage = HistorySize + 1
            /\ b.entries = <<j2>> /\ b.memory_usage = 1

\* C4 witness: a job over budget is alone in the queue with a younger job
\* that has no results yet, and set_results on the younger one evicts it.
SetResultsContractWitness ==
    /\ Len(entries) = 2
    /\ Consistent(Cur)
    /\ memory_usage > HistorySize
    /\ job[entries[1]].kind = "diffusion"
    /\ job[entries[2]].kind = "diffusion"
    /\ job[entries[2]].results = <<>>
    /\ LET s == SetResults(Cur, entries[2], <<1>>) IN
       s.entries = <<entries[2]>> /\ s.memory_usage = 1

\* C5: the queue is in insertion order, and what a prune call evicts is a
\* prefix of the queue, whatever the result sizes.
FifoEviction ==
    /\ \A i, j \in 1..Len(entries) : i < j => entries[i] < entries[j]
    /\ \A c \in PruneCalls :
         /\ c[2].evicted = SubSeq(entries, 1, Len(c[2].evicted))
         /\ c[2].entries
              = SubSeq(entries, Len(c[2].evicted) + 1, Len(entries))

\* C5 witness: a prune call evicts two jobs, the first one smaller than a
\* job that stays.
FifoEvictionWitness ==
    \E c \in PruneCalls :
        /\ Len(c[2].evicted) = 2
        /\ \E v \in Range(c[2].entries) :
             Size(c[2].job[v].results) > Size(job[c[2].evicted[1]].results)

\* C6: handle_message with an id no job in the queue carries raises nothing
\* and changes nothing.
UnknownJobIgnored ==
    \A m \in Messages : ~Known(m.job_id) => HandleMessage(Cur, m) = Cur

\* C6 witness: a message for an id no job carries arrives while the queue
\* holds jobs (one of them without an id), an error is shown and a result is
\* selected.
UnknownJobIgnoredWitness ==
    /\ \E m \in Messages : ~Known(m.job_id) /\ m.event = "finished"
    /\ \E u \in Range(entries) : job[u].id = None
    /\ \E u \in Range(entries) : job[u].id # None
    /\ error # ""
    /\ selection # NoSelection

\* C7: an interrupted event for a known job cancels the job, resets the
\* progress to 0 and leaves the error message as it was.
InterruptedCancels ==
    \A m \in Messages :
        (m.event = "interrupted" /\ Known(m.job_id)) =>
            LET s == HandleMessage(Cur, m) IN
            /\ s.exc = "" /\ ~s.slot_exc
            /\ s.job[JobOf(m.job_id)].state = "cancelled"
            /\ s.progress = 0
            /\ s.error = error

\* C7 witness: an executing job can be interrupted while an error is shown
\* and the progress is not 0.
InterruptedCancelsWitness ==
    \E m \in Messages :
        /\ m.event = "interrupted" /\ Known(m.job_id)
        /\ job[JobOf(m.job_id)].state = "executing"
        /\ error # ""
        /\ progress # 0

\* C8: an error event for a known job cancels the job and sets the error
\* message to a non-empty text made from the event's error text, whatever
\* the message was; the job stays in the queue with the results it had.
ErrorEventCancels ==
    \A m \in Messages :
        (m.event = "error" /\ Known(m.job_id)) =>
            LET s == HandleMessage(Cur, m)
                u == JobOf(m.job_id) IN
            /\ s.exc = "" /\ ~s.slot_exc
            /\ s.job[u].state = "cancelled"
            /\ s.error = "Server execution error: " \o m.error
            /\ s.error # ""
            /\ s.entries = entries
            /\ s.job[u].results = job[u].results
            /\ s.memory_usage = memory_usage

\* C8 witness: an error event for an executing job arrives while another
\* error message is shown.
ErrorEventCancelsWitness ==
    \E m \in Messages :
        /\ m.event = "error" /\ Known(m.job_id)
        /\ job[JobOf(m.job_id)].state = "executing"
        /\ error # ""
        /\ error # HandleMessage(Cur, m).error

\* C9: after a finished event for a known diffusion job the job is in the
\* queue in state finished and, if no preview layer existed when the event
\* arrived, the selection is (that job's id, 0).
FinishedDiffusionSelected ==
    \A m \in Messages :
        (m.event = "finished" /\ Known(m.job_id)
         /\ job[JobOf(m.job_id)].kind = "diffusion") =>
            LET s == HandleMessage(Cur, m)
                u == JobOf(m.job_id) IN
            /\ u \in Range(s.entries)
            /\ s.job[u].state = "finished"
            /\ layer = "None" =>
                 s.selection = [job |-> m.job_id, image |-> 0]

\* C10: every finished event for a known control_layer, upscaling or
\* live_preview job, with or without images, completes its handling: the
\* progress is set to complete, the job is finished and it is no longer in
\* the queue when handle_message returns.
NonDiffusionFinishCompletes ==
    \A m \in Messages :
        (m.event = "finished" /\ Known(m.job_id)
         /\ job[JobOf(m.job_id)].kind # "diffusion") =>
            LET s == HandleMessage(Cur, m)
                u == JobOf(m.job_id) IN
            /\ s.exc = ""
            /\ s.progress = 100
            /\ s.job[u].state = "finished"
            /\ u \notin Range(s.entries)

\* C11: with no job in the queue, select(job_id, index) followed by
\* update_preview leaves no preview shown and can_apply_result false.
SelectWithoutJobsHidesPreview ==
    entries = <<>> =>
        \A job_id \in JobIds, index \in {0, 1} :
            LET s == UpdatePreview(Select(Cur, job_id, index)) IN
            s.layer # "Preview" /\ ~s.can_apply_result

\* The request table of the design: the workflow for a mask presence and a
\* strength.
RequestTable(mask, str) ==
    IF ~mask THEN (IF str = 100 THEN "generate" ELSE "refine")
    ELSE (IF str = 100 THEN "inpaint" ELSE "refine_region")

\* C12: the request a generate coroutine builds is the table's entry for the
\* mask presence and the strength, and a reference image was captured
\* exactly when a mask is present or the strength is below 1.
RequestByTable ==
    \A t \in BagToSet(tasks) :
        t.pc = "start" =>
            /\ RequestType(t.image, t.mask, strength)
                 = RequestTable(t.mask, strength)
            /\ t.image <=> (t.mask \/ strength < 100)

\* C13: a finished event without images and without result payload for a
\* known control_layer job inserts no layer into the document, binds the
\* ControlLayer's layer_id to the active layer, finishes the job and removes
\* it from the queue.
CachedControlResultKeepsLayers ==
    \A m \in Messages :
        (m.event = "finished" /\ m.images = <<>> /\ m.result = "None"
         /\ Known(m.job_id) /\ job[JobOf(m.job_id)].kind = "control_layer") =>
            LET s == HandleMessage(Cur, m)
                u == JobOf(m.job_id) IN
            /\ s.exc = ""
            /\ s.inserted = <<>>
            /\ s.control.layer_id = ActiveLayer
            /\ s.job[u].state = "finished"
            /\ u \notin Range(s.entries)

\* C14: in every reachable state a job in the queue that has results is in
\* state finished.
ResultsOnlyWhenFinished ==
    \A u \in Range(entries) :
        job[u].results # <<>> => job[u].state = "finished"

\* A dispatch operation that ended in s recorded an error and aborted: no job
\* was added and no coroutine was handed to the event loop.
Aborted(s) ==
    /\ s.exc = ""
    /\ s.error # ""
    /\ s.entries = entries /\ s.next_uid = next_uid
    /\ s.dispatched = NoTask

\* C15: while the document's color mode is incompatible (check_color_mode
\* fails), each of generate, upscale_image, generate_live and
\* generate_control_layer records an error and aborts without adding a job
\* or submitting anything.
ColorModeFailureAborts ==
    CanDispatch =>
        /\ \A mask \in BOOLEAN : Aborted(Generate(Cur, FALSE, mask))
        /\ control.status = "listed" =>
             Aborted(GenerateControlLayer(Cur, FALSE))
        /\ Aborted(UpscaleImage(Cur))
        /\ \A image \in BOOLEAN : Aborted(GenerateLive(Cur, image))

\* C16: when a dispatched coroutine fails before the backend has assigned an
\* id (building the request or submitting it raises), _report_errors leaves
\* no exception, makes the error field non-empty and touches neither the
\* queue nor a job; a generate coroutine has constructed no job, and the job
\* of any other coroutine is in state queued with its id unset.
SubmissionFailureReported ==
    \A t \in BagToSet(tasks), e \in SubmitErrors :
        LET s == TaskFail(Cur, t, e) IN
        /\ s.exc = ""
        /\ s.error # ""
        /\ s.entries = entries /\ s.job = job
        /\ t.op = "generate" => t.job = None
        /\ t.op # "generate" =>
             s.job[t.job].state = "queued" /\ s.job[t.job].id = None

\* C16 witness: a generate coroutine and the coroutine of a job of another
\* kind, still in the queue, are both awaiting their submission while no
\* error is shown.
SubmissionFailureReportedWitness ==
    /\ error = ""
    /\ \E t \in BagToSet(tasks) : t.op = "generate"
    /\ \E t \in BagToSet(tasks) :
         t.op # "generate" /\ t.job \in Range(entries)

\* The calls that can be made in the current state other than
\* ControlLayer.generate, with the state each ends in.
OtherCalls ==
    {HandleMessage(Cur, m) : m \in Messages}
    \cup {Cancel(Cur, a, q) : a, q \in BOOLEAN}
    \cup {Select(Cur, i, x) : i \in JobIds, x \in {0, 1}}
    \cup {TaskFail(Cur, t, e) : t \in BagToSet(tasks), e \in SubmitErrors}
    \cup (IF can_apply_result THEN {ApplyCurrentResult(Cur)} ELSE {})
    \cup {SetSelection(Cur, NoSelection), [Cur EXCEPT !.layer = "Deleted"]}
    \cup (IF control.status = "absent" THEN {ControlAdd(Cur)} ELSE {})
    \cup (IF control.status = "listed"
          THEN {ControlRemove(Cur)}
               \cup {SetControlMode(Cur, mode) : mode \in Modes}
               \cup {SetControlLayer(Cur, id) :
                        id \in {OriginalLayer, ActiveLayer}}
          ELSE {})
    \cup (IF CanDispatch
          THEN {UpscaleImage(Cur)}
               \cup {GenerateLive(Cur, image) : image \in BOOLEAN}
               \cup {Generate(Cur, ok, mask) : ok, mask \in BOOLEAN}
          ELSE {})

\* C17: has_active_job turns true only in a ControlLayer.generate call that
\* dispatched a generation for the layer, and such a call sets it; it stays
\* true when a job other than the tracked one finishes; it is false after
\* the finished event of the tracked job.
ActiveJobTracking ==
    /\ (CanDispatch /\ control.status = "listed") =>
          \A ok \in BOOLEAN :
              LET s == ControlGenerate(Cur, ok) IN
              /\ s.dispatched # NoTask => s.control.has_active_job
              /\ (~control.has_active_job /\ s.control.has_active_job) =>
                    /\ s.dispatched # NoTask
                    /\ s.dispatched.job = s.control.generate_job
    /\ \A s \in OtherCalls :
          s.control.has_active_job => control.has_active_job
    /\ \A m \in Messages :
          (m.event = "finished" /\ Known(m.job_id)) =>
              LET s == HandleMessage(Cur, m)
                  g == control.generate_job IN
              IF JobOf(m.job_id) = g
              THEN s.exc = "" => ~s.control.has_active_job
              ELSE (control.has_active_job /\ g # None
                    /\ job[g].state # "finished" /\ s.exc = "") =>
                       s.control.has_active_job

\* No server event and no cancel call, made in the current state, empties a
\* non-empty error field.
ErrorKeptByEventsAndCancel ==
    error # "" =>
        /\ \A m \in Messages : HandleMessage(Cur, m).error # ""
        /\ \A a, q \in BOOLEAN : Cancel(Cur, a, q).error # ""

\* C18: the error field holds one message; it goes from non-empty to empty
\* only in a step that hands a new coroutine to the event loop (a dispatch
\* operation that got past its checks), and no server event and no cancel
\* call empties it.
ErrorClearedOnlyByDispatch ==
    /\ []ErrorKeptByEventsAndCancel
    /\ [][(error # "" /\ error' = "") =>
            BagCardinality(tasks') = BagCardinality(tasks) + 1]_vars

\* C18 witness: an error is shown, a dispatch that would clear it can be
\* made, and events for a known executing job can arrive.
ErrorClearedOnlyByDispatchWitness ==
    /\ error # ""
    /\ CanDispatch
    /\ Generate(Cur, TRUE, FALSE).error = ""
    /\ \E m \in Messages :
         /\ m.event = "interrupted" /\ Known(m.job_id)
         /\ job[JobOf(m.job_id)].state = "executing"

\* The coroutine t runs to its end in s without failing: for generate the
\* rest of _generate, for the others the assignment of the backend's id.
Complete(s, t) ==
    IF t.op = "generate"
    THEN LET s1 == IF t.pc = "start" THEN GenerateStart(s, t.image, t.mask)
                   ELSE s IN
         GenerateEnqueued(s1, JobId(s1.next_uid))
    ELSE JobEnqueued(s, t.job, JobId(t.job))

\* The states the four dispatch operations end in when they dispatch.
Dispatches ==
    {s \in {Generate(Cur, TRUE, mask) : mask \in BOOLEAN}
            \cup {GenerateLive(Cur, image) : image \in BOOLEAN}
            \cup {UpscaleImage(Cur)}
            \cup (IF control.status = "listed"
                  THEN {ControlGenerate(Cur, TRUE)} ELSE {}) :
        s.dispatched # NoTask}

\* C19: when a dispatch operation is called while the coroutine t1 of an
\* earlier dispatch is awaiting its submission (its job, if it has one yet,
\* still in the queue), Model.task afterwards is the handle of the new
\* coroutine t2 only, t1 is still running, and completing t1 and t2 in
\* either order leaves the jobs of both dispatches in the queue, each with
\* an id of its own.
SupersededDispatchCompletes ==
    CanDispatch =>
        \A t1 \in BagToSet(tasks), s \in Dispatches :
            (t1.pc = "await"
             /\ (t1.op # "generate" => t1.job \in Range(entries))) =>
                LET t2 == s.dispatched
                    both(r) == (Range(r.entries) \ Range(entries))
                               \cup (IF t1.op = "generate" THEN {}
                                     ELSE {t1.job})
                    registered(r) ==
                        /\ r.exc = ""
                        /\ Cardinality(both(r)) = 2
                        /\ both(r) \subseteq Range(r.entries)
                        /\ \A u \in both(r) :
                             /\ r.job[u].id # None
                             /\ \A v \in Range(r.entries) \ {u} :
                                  r.job[v].id # r.job[u].id
                IN
                /\ s.exc = ""
                /\ s.task = Handle(t2)
                /\ CopiesIn(t1, Dispatched(s, tasks)) = CopiesIn(t1, tasks)
                /\ CopiesIn(t2, Dispatched(s, tasks)) = CopiesIn(t2, tasks) + 1
                /\ registered(Complete(Complete(s, t1), t2))
                /\ registered(Complete(Complete(s, t2), t1))

\* C19 witness: the coroutine whose handle Model.task holds is awaiting its
\* submission, its job is in the queue, and another dispatch can be made.
SupersededDispatchCompletesWitness ==
    /\ CanDispatch
    /\ \E t1 \in BagToSet(tasks) :
         /\ t1.pc = "await" /\ task = Handle(t1)
         /\ t1.op # "generate" /\ t1.job \in Range(entries)

\* C20: after dispatches, server events, pruning and cancel calls, a set
\* selection names a job in the queue and an index within that job's
\* results, and no server event makes update_preview raise in show_preview.
SelectionResolves ==
    /\ selection # NoSelection =>
          /\ Known(selection.job)
          /\ selection.image < Len(job[JobOf(selection.job)].results)
    /\ \A m \in Messages : ~HandleMessage(Cur, m).slot_exc

\* The lifecycle transitions of a job.
Lifecycle ==
    {<<"queued", "executing">>,
     <<"queued", "finished">>, <<"executing", "finished">>,
     <<"queued", "cancelled">>, <<"executing", "cancelled">>}

\* C21: a server event for a known job leaves the state of a finished or
\* cancelled job as it is, and changes the state of any job only along
\* queued -> executing, queued or executing -> finished, queued or
\* executing -> cancelled.
TerminalStates ==
    \A m \in Messages :
        Known(m.job_id) =>
            LET u == JobOf(m.job_id)
                s == HandleMessage(Cur, m) IN
            /\ job[u].state \in {"finished", "cancelled"} =>
                 s.job[u].state = job[u].state
            /\ s.job[u].state # job[u].state =>
                 <<job[u].state, s.job[u].state>> \in Lifecycle

\* The generation of the ControlLayer can no longer complete: the dispatch
\* aborted and created no job, or the tracked job was cancelled by an
\* interrupted or error event, or it was taken out of the queue unfinished.
GenerationLost ==
    LET g == control.generate_job IN
    \/ g = None
    \/ job[g].state = "cancelled"
    \/ g \notin Range(entries) /\ job[g].state # "finished"

\* C22: once the ControlLayer's generation can no longer complete,
\* has_active_job is false at the latest after the finished event of any
\* job.
ActiveJobClearedWhenLost ==
    \A m \in Messages :
        (m.event = "finished" /\ Known(m.job_id)
         /\ control.has_active_job /\ GenerationLost) =>
            LET s == HandleMessage(Cur, m) IN
            s.exc = "" => ~s.control.has_active_job

\* C23: in every reachable state can_apply_result is true only if a preview
\* layer is tracked, so that apply_current_result's assertion holds whenever
\* the apply affordance is enabled.
ApplyEnabledOnlyWithPreview ==
    can_apply_result =>
        /\ layer # "None"
        /\ ApplyCurrentResult(Cur).exc = ""

====
